---- MODULE Spec2Model ----
(***************************************************************************)
(* Inventory and stock management (src/stock.py): a menu loop over a      *)
(* SQLite file with the tables Suppliers, Products and Transactions.      *)
(* The persisted tables are the variables Suppliers, Products and         *)
(* Transactions; conn is the uncommitted view of the connection a         *)
(* stock_in / stock_out holds open between its UPDATE and its commit.     *)
(* Every handler draws, next to its console inputs, the database access   *)
(* (fault) that raises sqlite3.Error in this invocation, or "none".       *)
(***************************************************************************)
EXTENDS Integers, Sequences, FiniteSets

\* ---------------------------------------------------------------- bounds
MaxSuppliers == 1
MaxProducts == 2
MaxTrans == 2
MaxQty == 2
MaxDate == 1

\* ---------------------------------------------------------------- inputs
None == << >>
Some(x) == << x >>

Names == {"", "n"}
Categories == {None}
Contacts == {None}
Quantities == -1 .. MaxQty
Prices == {-1, 1}
Dates == 0 .. MaxDate
SupplierIdInputs == {None} \cup {Some(i) : i \in 0 .. MaxSuppliers}
ProductIdInputs == 0 .. MaxProducts
Choices == {"0", "x"}

SupplierFaults == {"none", "connect", "execute"}
ViewFaults == {"none", "connect", "query"}
ProductFaults == {"none", "view_connect", "view_query", "exists", "connect", "execute"}
StockFaults == {"none", "view_connect", "view_query", "get_product", "connect"}
ReportFaults == {"none", "connect", "query"}

VARIABLES
    Suppliers,         \* table Suppliers: supplier_id -> row
    Products,          \* table Products: product_id -> row
    Transactions,      \* table Transactions: trans_id -> row
    initial_quantity,  \* product_id -> the quantity add_product inserted
    conn,              \* the connection of the running stock_in / stock_out
    pc,                \* position of the process inside main_menu
    status,            \* "running", "exited", "aborted", "killed", "init_failed"
    call,              \* the inputs read by the current / last handler
    out                \* the last message the handler printed

vars == << Suppliers, Products, Transactions, initial_quantity, conn, pc,
           status, call, out >>

db == << Suppliers, Products, Transactions, initial_quantity >>

\* ---------------------------------------------------------------- helpers
Closed == [open |-> FALSE, Products |-> << >>, Transactions |-> << >>]

\* get_connection(): a connection starts with the committed tables in view
get_connection == [open |-> TRUE, Products |-> Products, Transactions |-> Transactions]

close_commits(persisted, uncommitted) == uncommitted

\* conn.close() without a commit discards the connection's uncommitted writes
close(persisted, uncommitted) == persisted

NoCall == [op |-> "", supplier_id |-> None, product_id |-> 0, qty |-> 0]

Message(m, a) == [msg |-> m, args |-> a]

NoOut == Message("", << >>)

\* the menu text main_menu prints before it reads a choice
Menu == Message("Menu", << >>)

supplier_exists_any(supplier_id) == TRUE

supplier_exists(supplier_id) ==
    IF supplier_id = None THEN FALSE ELSE supplier_id[1] \in DOMAIN Suppliers

get_product(product_id) == product_id \in DOMAIN Products

QuantityNotPositive_mut(qty) == qty < 0

\* stock_in / stock_out: "qty is None or qty <= 0"
QuantityNotPositive(qty) == qty <= 0

\* add_product: "quantity is None or quantity < 0"
QuantityNegative(quantity) == quantity < 0

NotEnoughStock_mut(product, qty) == product.quantity + 1 < qty

\* stock_out: "product['quantity'] < qty"
NotEnoughStock(product, qty) == product.quantity < qty

UpdateQuantity_double(P, product_id, delta) ==
    [P EXCEPT ![product_id].quantity = @ + 2 * delta]

UpdateQuantity_mut(P, product_id, delta) ==
    [P EXCEPT ![product_id].quantity = @ + delta + 1]

\* UPDATE Products SET quantity = quantity + ? WHERE product_id=?
UpdateQuantity(P, product_id, delta) ==
    [P EXCEPT ![product_id].quantity = @ + delta]

InsertTransaction_replace(T, product_id, trans_type, qty, date) ==
    LET row == [trans_id |-> Len(T) + 1, product_id |-> product_id,
                trans_type |-> trans_type, quantity |-> qty, date |-> date]
    IN  IF T = << >> THEN << row >> ELSE [T EXCEPT ![Len(T)] = row]

InsertTransaction_mut(T, product_id, trans_type, qty, date) ==
    Append(T, [trans_id |-> Len(T) + 1, product_id |-> product_id,
               trans_type |-> "IN", quantity |-> qty, date |-> date])

\* INSERT INTO Transactions (product_id, trans_type, quantity, date)
InsertTransaction(T, product_id, trans_type, qty, date) ==
    Append(T, [trans_id |-> Len(T) + 1, product_id |-> product_id,
               trans_type |-> trans_type, quantity |-> qty, date |-> date])

\* INSERT INTO Products (name, category, quantity, price, supplier_id)
InsertProduct(P, name, category, quantity, price, supplier_id) ==
    Append(P, [name |-> name, category |-> category, quantity |-> quantity,
               price |-> price, supplier_id |-> supplier_id])

\* INSERT INTO Suppliers (name, contact)
InsertSupplier(S, name, contact) == Append(S, [name |-> name, contact |-> contact])

\* an exception no handler catches leaves main_menu: the process ends
Raise ==
    /\ status' = "aborted"
    /\ pc' = "menu"
    /\ conn' = Closed
    /\ call' = NoCall
    /\ out' = Message("Traceback", << >>)
    /\ UNCHANGED db

\* the handler that read the inputs c prints m and returns to the menu loop
Return(c, m, a) ==
    /\ call' = c
    /\ out' = Message(m, a)
    /\ pc' = "returned"
    /\ conn' = Closed
    /\ UNCHANGED << db, status >>

Call(op) == [NoCall EXCEPT !.op = op]

AtMenu == status = "running" /\ pc = "menu"

\* ---------------------------------------------------------------- startup
Init ==
    /\ Suppliers = << >>
    /\ Products = << >>
    /\ Transactions = << >>
    /\ initial_quantity = << >>
    /\ conn = Closed
    /\ pc = "menu"
    /\ status = "running"
    /\ call = NoCall
    /\ out = Menu

\* ---------------------------------------------------------------- suppliers
add_supplier(name, contact, fault) ==
    /\ AtMenu
    /\ LET c == Call("add_supplier")
       IN  IF name = "" THEN Return(c, "Name cannot be empty", << >>)
           ELSE IF fault = "connect" THEN Raise
           ELSE IF fault = "execute" THEN Return(c, "DB Error", << >>)
           ELSE /\ Len(Suppliers) < MaxSuppliers
                /\ Suppliers' = InsertSupplier(Suppliers, name, contact)
                /\ call' = c
                /\ out' = Message("Supplier added", << >>)
                /\ pc' = "returned"
                /\ UNCHANGED << Products, Transactions, initial_quantity, conn, status >>

view_suppliers(fault) ==
    /\ AtMenu
    /\ LET c == Call("view_suppliers")
       IN  IF fault = "connect" THEN Raise
           ELSE IF fault = "query" THEN Return(c, "DB Error", << >>)
           ELSE IF Suppliers = << >> THEN Return(c, "No suppliers found", << >>)
           ELSE Return(c, "Suppliers", [i \in 1 .. Len(Suppliers) |-> i])

\* ---------------------------------------------------------------- products
add_product(name, category, quantity, price, supplier_id, fault) ==
    /\ AtMenu
    /\ LET c0 == Call("add_product")
           c == [c0 EXCEPT !.supplier_id = supplier_id]
       IN  IF name = "" THEN Return(c0, "Product name cannot be empty", << >>)
           ELSE IF QuantityNegative(quantity)
           THEN Return(c0, "Quantity must be 0 or greater", << >>)
           ELSE IF fault = "view_connect" THEN Raise
           ELSE IF supplier_id # None /\ fault = "exists" THEN Raise
           ELSE IF supplier_id # None /\ ~supplier_exists(supplier_id)
           THEN Return(c, "Supplier ID does not exist", << >>)
           ELSE IF fault = "connect" THEN Raise
           ELSE IF fault = "execute" THEN Return(c, "DB Error", << >>)
           ELSE /\ Len(Products) < MaxProducts
                /\ quantity <= MaxQty
                /\ Products' = InsertProduct(Products, name, category, quantity, price,
                                             supplier_id)
                /\ initial_quantity' = Append(initial_quantity, quantity)
                /\ call' = c
                /\ out' = Message("Product added", << >>)
                /\ pc' = "returned"
                /\ UNCHANGED << Suppliers, Transactions, conn, status >>

view_products(fault) ==
    /\ AtMenu
    /\ LET c == Call("view_products")
       IN  IF fault = "connect" THEN Raise
           ELSE IF fault = "query" THEN Return(c, "DB Error", << >>)
           ELSE IF Products = << >> THEN Return(c, "No products found", << >>)
           ELSE Return(c, "Products", [i \in 1 .. Len(Products) |-> i])

\* ---------------------------------------------------------------- stock IN
stock_in(product_id, qty, fault) ==
    /\ AtMenu
    /\ LET c0 == [Call("stock_in") EXCEPT !.product_id = product_id]
           c == [c0 EXCEPT !.qty = qty]
       IN  IF fault = "view_connect" \/ fault = "get_product" THEN Raise
           ELSE IF ~get_product(product_id) THEN Return(c0, "Product not found", << >>)
           ELSE IF QuantityNotPositive(qty)
           THEN Return(c, "Quantity must be a positive integer", << >>)
           ELSE IF fault = "connect" THEN Raise
           ELSE /\ Len(Transactions) < MaxTrans
                /\ Products[product_id].quantity + qty <= MaxQty
                /\ conn' = get_connection
                /\ pc' = "stock_in_update"
                /\ call' = c
                /\ UNCHANGED << db, status, out >>

stock_in_update ==
    /\ status = "running" /\ pc = "stock_in_update"
    /\ conn' = [conn EXCEPT !.Products = UpdateQuantity(@, call.product_id, call.qty)]
    /\ pc' = "stock_in_insert"
    /\ UNCHANGED << db, status, call, out >>

stock_in_insert(date) ==
    /\ status = "running" /\ pc = "stock_in_insert"
    /\ conn' = [conn EXCEPT !.Transactions =
                    InsertTransaction(@, call.product_id, "IN", call.qty, date)]
    /\ pc' = "stock_in_commit"
    /\ UNCHANGED << db, status, call, out >>

stock_in_commit ==
    /\ status = "running" /\ pc = "stock_in_commit"
    /\ Products' = conn.Products
    /\ Transactions' = conn.Transactions
    /\ conn' = Closed
    /\ pc' = "returned"
    /\ out' = Message("Stock updated", << call.qty, call.product_id >>)
    /\ UNCHANGED << Suppliers, initial_quantity, status, call >>

\* the statement of the write section the process is about to execute:
\* 1 the UPDATE, 2 the INSERT, 3 the commit
Statement ==
    CASE pc \in {"stock_in_update", "stock_out_update"} -> 1
      [] pc \in {"stock_in_insert", "stock_out_insert"} -> 2
      [] OTHER -> 3

\* except sqlite3.Error as e: print(e) ... finally conn.close(); the statement
\* that raised is any of the three
stock_in_except ==
    /\ status = "running"
    /\ pc \in {"stock_in_update", "stock_in_insert", "stock_in_commit"}
    /\ Products' = close(Products, conn.Products)
    /\ Transactions' = close(Transactions, conn.Transactions)
    /\ conn' = Closed
    /\ pc' = "returned"
    /\ out' = Message("DB Error", << Statement >>)
    /\ UNCHANGED << Suppliers, initial_quantity, status, call >>

\* ---------------------------------------------------------------- stock OUT
stock_out(product_id, qty, fault) ==
    /\ AtMenu
    /\ LET c0 == [Call("stock_out") EXCEPT !.product_id = product_id]
           c == [c0 EXCEPT !.qty = qty]
       IN  IF fault = "view_connect" \/ fault = "get_product" THEN Raise
           ELSE IF ~get_product(product_id) THEN Return(c0, "Product not found", << >>)
           ELSE IF QuantityNotPositive(qty)
           THEN Return(c, "Quantity must be a positive integer", << >>)
           ELSE IF NotEnoughStock(Products[product_id], qty)
           THEN Return(c, "Not enough stock", << Products[product_id].quantity >>)
           ELSE IF fault = "connect" THEN Raise
           ELSE /\ Len(Transactions) < MaxTrans
                /\ conn' = get_connection
                /\ pc' = "stock_out_update"
                /\ call' = c
                /\ UNCHANGED << db, status, out >>

stock_out_update ==
    /\ status = "running" /\ pc = "stock_out_update"
    /\ conn' = [conn EXCEPT !.Products = UpdateQuantity(@, call.product_id, 0 - call.qty)]
    /\ pc' = "stock_out_insert"
    /\ UNCHANGED << db, status, call, out >>

stock_out_insert(date) ==
    /\ status = "running" /\ pc = "stock_out_insert"
    /\ conn' = [conn EXCEPT !.Transactions =
                    InsertTransaction(@, call.product_id, "OUT", call.qty, date)]
    /\ pc' = "stock_out_commit"
    /\ UNCHANGED << db, status, call, out >>

stock_out_commit ==
    /\ status = "running" /\ pc = "stock_out_commit"
    /\ Products' = conn.Products
    /\ Transactions' = conn.Transactions
    /\ conn' = Closed
    /\ pc' = "returned"
    /\ out' = Message("Stock decreased", << call.qty, call.product_id >>)
    /\ UNCHANGED << Suppliers, initial_quantity, status, call >>

stock_out_except ==
    /\ status = "running"
    /\ pc \in {"stock_out_update", "stock_out_insert", "stock_out_commit"}
    /\ Products' = close(Products, conn.Products)
    /\ Transactions' = close(Transactions, conn.Transactions)
    /\ conn' = Closed
    /\ pc' = "returned"
    /\ out' = Message("DB Error", << Statement >>)
    /\ UNCHANGED << Suppliers, initial_quantity, status, call >>

\* ---------------------------------------------------------------- reports
\* the orders of the ids of S in which quantity never decreases (ties in any order)
OrderByQuantity(S) ==
    { s \in [1 .. Cardinality(S) -> S] :
        /\ \A i, j \in 1 .. Cardinality(S) : i # j => s[i] # s[j]
        /\ \A i, j \in 1 .. Cardinality(S) :
              i < j => Products[s[i]].quantity <= Products[s[j]].quantity }

\* t comes before u under ORDER BY t.date DESC, t.trans_id DESC
TransBefore(t, u) ==
    \/ Transactions[t].date > Transactions[u].date
    \/ Transactions[t].date = Transactions[u].date /\ t > u

RECURSIVE OrderByDateDesc(_)
OrderByDateDesc(S) ==
    IF S = {} THEN << >>
    ELSE LET first == CHOOSE t \in S : \A u \in S \ {t} : TransBefore(t, u)
         IN  << first >> \o OrderByDateDesc(S \ {first})

low_stock_report(threshold, fault) ==
    /\ AtMenu
    /\ LET c == Call("low_stock_report")
           low == { p \in DOMAIN Products : Products[p].quantity <= threshold }
       IN  IF threshold < 0 THEN Return(c, "Threshold must be 0 or greater", << >>)
           ELSE IF fault = "connect" THEN Raise
           ELSE IF fault = "query" THEN Return(c, "DB Error", << >>)
           ELSE IF low = {} THEN Return(c, "No products with quantity <= threshold", << >>)
           ELSE \E rows \in OrderByQuantity(low) : Return(c, "Low Stock Products", rows)

transaction_report(fault) ==
    /\ AtMenu
    /\ LET c == Call("transaction_report")
       IN  IF fault = "connect" THEN Raise
           ELSE IF fault = "query" THEN Return(c, "DB Error", << >>)
           ELSE IF Transactions = << >> THEN Return(c, "No transactions found", << >>)
           ELSE Return(c, "Transactions", OrderByDateDesc(DOMAIN Transactions))

\* ---------------------------------------------------------------- menu
\* the handler has returned: the while loop prints the menu and reads the next choice
menu_loop ==
    /\ status = "running" /\ pc = "returned"
    /\ pc' = "menu"
    /\ call' = NoCall
    /\ out' = Menu
    /\ UNCHANGED << db, conn, status >>

\* choice "9"
exit ==
    /\ AtMenu
    /\ status' = "exited"
    /\ call' = NoCall
    /\ out' = Message("Goodbye", << >>)
    /\ UNCHANGED << db, conn, pc >>

\* actions.get(choice) is None
invalid_choice(choice) ==
    /\ AtMenu
    /\ Return(Call(choice), "Invalid choice", << >>)

\* the process is killed (crash, power loss): what no commit made durable is lost
kill ==
    /\ status = "running"
    /\ status' = "killed"
    /\ conn' = Closed
    /\ pc' = "menu"
    /\ call' = NoCall
    /\ out' = NoOut
    /\ UNCHANGED db

\* create_tables(): CREATE TABLE IF NOT EXISTS leaves existing tables alone
create_tables(fault) ==
    IF fault = "connect"
    THEN status' = "init_failed" /\ out' = Message("Traceback", << >>)
    ELSE status' = "running" /\ out' = Menu

\* the program is started again on the same inventory.db
main_menu(fault) ==
    /\ status # "running"
    /\ create_tables(fault)
    /\ pc' = "menu"
    /\ conn' = Closed
    /\ call' = NoCall
    /\ UNCHANGED db

Next ==
    \/ menu_loop
    \/ \E name \in Names, contact \in Contacts, fault \in SupplierFaults :
          add_supplier(name, contact, fault)
    \/ \E fault \in ViewFaults : view_suppliers(fault)
    \/ \E name \in Names, category \in Categories, quantity \in Quantities,
          price \in Prices, supplier_id \in SupplierIdInputs,
          fault \in ProductFaults :
          add_product(name, category, quantity, price, supplier_id, fault)
    \/ \E fault \in ViewFaults : view_products(fault)
    \/ \E product_id \in ProductIdInputs, qty \in Quantities, fault \in StockFaults :
          stock_in(product_id, qty, fault)
    \/ stock_in_update
    \/ \E date \in Dates : stock_in_insert(date)
    \/ stock_in_commit
    \/ stock_in_except
    \/ \E product_id \in ProductIdInputs, qty \in Quantities, fault \in StockFaults :
          stock_out(product_id, qty, fault)
    \/ stock_out_update
    \/ \E date \in Dates : stock_out_insert(date)
    \/ stock_out_commit
    \/ stock_out_except
    \/ \E threshold \in Quantities, fault \in ReportFaults :
          low_stock_report(threshold, fault)
    \/ \E fault \in ReportFaults : transaction_report(fault)
    \/ exit
    \/ \E choice \in Choices : invalid_choice(choice)
    \/ kill
    \/ \E fault \in {"none", "connect"} : main_menu(fault)

Spec == Init /\ [][Next]_vars

\* ---------------------------------------------------------------- properties
WriteSection == {"stock_in_update", "stock_in_insert", "stock_in_commit",
                 "stock_out_update", "stock_out_insert", "stock_out_commit"}

\* the step is the start of a handler that read the inputs call'
Handles(op) == AtMenu /\ call'.op = op

\* C1: every stored product's quantity is an integer >= 0 in every reachable
\* state, whatever add_product, stock_in and stock_out calls came before.
C1_QuantityNonNegative ==
    \A p \in DOMAIN Products : Products[p].quantity \in Nat

\* a stock_out has just taken the whole stock of a product
C1_Witness ==
    /\ pc = "returned" /\ out.msg = "Stock decreased"
    /\ Products[call.product_id].quantity = 0
    /\ initial_quantity[call.product_id] > 0

\* C2: a stock_out of an existing product that asks for more than the product's
\* current quantity returns without entering the write section and leaves every
\* table as it was.
C2_StockOutRejected ==
    [][ ( /\ Handles("stock_out")
          /\ call'.product_id \in DOMAIN Products
          /\ call'.qty > Products[call'.product_id].quantity )
        => ( /\ pc' = "returned"
             /\ out' = Message("Not enough stock",
                               << Products[call'.product_id].quantity >>)
             /\ UNCHANGED db ) ]_vars

\* stock_out asked for more than a stocked product holds, after earlier movements
C2_Witness ==
    /\ pc = "returned" /\ call.op = "stock_out"
    /\ call.product_id \in DOMAIN Products
    /\ call.qty > Products[call.product_id].quantity
    /\ Products[call.product_id].quantity > 0
    /\ Transactions # << >>

TransactionOf(c, trans_type, T) ==
    /\ Len(T) > 0
    /\ T[Len(T)].trans_id = Len(T)
    /\ T[Len(T)].product_id = c.product_id
    /\ T[Len(T)].trans_type = trans_type
    /\ T[Len(T)].quantity = c.qty

Applied(trans_type, delta) ==
    /\ call.qty > 0
    /\ call.product_id \in DOMAIN Products
    /\ Len(Transactions') = Len(Transactions) + 1
    /\ SubSeq(Transactions', 1, Len(Transactions)) = Transactions
    /\ TransactionOf(call, trans_type, Transactions')
    /\ Products' = [Products EXCEPT ![call.product_id].quantity = @ + delta]
    /\ Products'[call.product_id].quantity >= 0

\* C3: a stock_in / stock_out that succeeds appends exactly one transaction
\* record carrying the call's product_id, its direction (IN / OUT) and its qty,
\* and moves that product's quantity by exactly +qty / -qty; no other product
\* changes, and until the commit the tables show nothing of the call.
C3_SuccessApplied ==
    [][ /\ (pc = "stock_in_commit" /\ out'.msg = "Stock updated")
            => Applied("IN", call.qty)
        /\ (pc = "stock_out_commit" /\ out'.msg = "Stock decreased")
            => Applied("OUT", 0 - call.qty)
        /\ (pc' \in WriteSection) => UNCHANGED << Products, Transactions >> ]_vars

\* a stock_out succeeded on the second product while the first keeps its stock
C3_Witness ==
    /\ pc = "returned" /\ out = Message("Stock decreased", << 1, 2 >>)
    /\ TransactionOf(call, "OUT", Transactions)
    /\ Len(Products) = 2
    /\ Products[2].quantity = initial_quantity[2] - 1
    /\ Products[1].quantity > 0

QuantityChanged ==
    \E p \in DOMAIN Products : Products'[p].quantity # Products[p].quantity

\* C4: the quantity update and the transaction insert become durable together
\* or not at all: no step changes a stored quantity without appending a
\* transaction or the reverse, and a database error or a crash anywhere between
\* the UPDATE and the commit leaves Products and Transactions as they were.
C4_Atomic ==
    [][ /\ QuantityChanged <=> (Transactions' # Transactions)
        /\ (pc \in WriteSection /\ (status' # "running" \/ out'.msg = "DB Error"))
            => UNCHANGED << Products, Transactions >> ]_vars

\* the INSERT of a stock_out raised after its UPDATE had run in the connection
C4_Witness ==
    /\ pc = "returned" /\ call.op = "stock_out"
    /\ out = Message("DB Error", << 2 >>)
    /\ Products[call.product_id].quantity >= call.qty

\* C5: add_product with a supplier_id that no supplier has is rejected and
\* leaves Products as it was; with no supplier_id or with an existing one it is
\* never rejected as a missing supplier.
C5_SupplierChecked ==
    [][ Handles("add_product") =>
          IF call'.supplier_id # None /\ call'.supplier_id[1] \notin DOMAIN Suppliers
          THEN /\ out'.msg = "Supplier ID does not exist"
               /\ pc' = "returned"
               /\ UNCHANGED db
          ELSE out'.msg # "Supplier ID does not exist" ]_vars

\* add_product named a supplier id nobody has while another supplier exists
C5_Witness ==
    /\ pc = "returned" /\ call.op = "add_product"
    /\ call.supplier_id # None
    /\ call.supplier_id[1] \notin DOMAIN Suppliers
    /\ Suppliers # << >>
    /\ out.msg = "Supplier ID does not exist"

\* C6: stock_in and stock_out with a qty <= 0 or with a product_id no product
\* has return without entering the write section: no quantity changes and no
\* transaction is appended.
C6_InvalidRejected ==
    [][ ( /\ Handles("stock_in") \/ Handles("stock_out")
          /\ \/ call'.product_id \notin DOMAIN Products
             \/ call'.qty <= 0 )
        => ( /\ pc' = "returned"
             /\ out'.msg \in {"Product not found", "Quantity must be a positive integer"}
             /\ UNCHANGED db ) ]_vars

\* stock_in was asked to add a non-positive quantity to an existing product
C6_Witness ==
    /\ pc = "returned" /\ call.op = "stock_in"
    /\ call.product_id \in DOMAIN Products
    /\ call.qty <= 0
    /\ out.msg = "Quantity must be a positive integer"

\* C7: after startup no error raised inside a menu operation ends the
\* process: every one is handled and control returns to the menu loop.
C7_ErrorsRecovered == status # "aborted"

\* C8: every product add_product stored has a price >= 0.
C8_PriceNonNegative ==
    \A p \in DOMAIN Products : Products[p].price >= 0

\* C9: transaction records are append-only: every step keeps the existing
\* records, field for field, as a prefix of the table, and the table grows
\* only by one record in the commit of a successful stock_in or stock_out.
C9_AppendOnly ==
    [][ /\ Len(Transactions') >= Len(Transactions)
        /\ SubSeq(Transactions', 1, Len(Transactions)) = Transactions
        /\ (Transactions' # Transactions)
            => /\ Len(Transactions') = Len(Transactions) + 1
               /\ \/ pc = "stock_in_commit" /\ out'.msg = "Stock updated"
                  \/ pc = "stock_out_commit" /\ out'.msg = "Stock decreased" ]_vars

\* a second record was appended behind a first one that is still there
C9_Witness ==
    /\ pc = "returned" /\ out.msg = "Stock updated"
    /\ Len(Transactions) = 2
    /\ Transactions[1].trans_id = 1
    /\ Transactions[1].trans_type = "OUT"

RECURSIVE Moved(_, _, _)
\* the sum of the quantities of the first n records of product p with the given type
Moved(p, trans_type, n) ==
    IF n = 0 THEN 0
    ELSE Moved(p, trans_type, n - 1)
         + (IF Transactions[n].product_id = p /\ Transactions[n].trans_type = trans_type
            THEN Transactions[n].quantity ELSE 0)

\* C10: ledger conservation: a product's quantity is its initial quantity plus
\* its IN records minus its OUT records, and every record has a quantity > 0, a
\* type IN or OUT and the product_id of an existing product.
C10_LedgerConservation ==
    /\ \A p \in DOMAIN Products :
          Products[p].quantity = initial_quantity[p]
                                 + Moved(p, "IN", Len(Transactions))
                                 - Moved(p, "OUT", Len(Transactions))
    /\ \A t \in DOMAIN Transactions :
          /\ Transactions[t].quantity > 0
          /\ Transactions[t].trans_type \in {"IN", "OUT"}
          /\ Transactions[t].product_id \in DOMAIN Products

\* one product has both an IN and an OUT record and a changed quantity
C10_Witness ==
    /\ Len(Transactions) = 2
    /\ Transactions[1].product_id = Transactions[2].product_id
    /\ Transactions[1].trans_type = "IN" /\ Transactions[2].trans_type = "OUT"
    /\ Products[Transactions[1].product_id].quantity
         # initial_quantity[Transactions[1].product_id]

====
